---- MODULE Spec2Model ----
(***************************************************************************)
(* State-machine model of js/main.js: the PortfolioSite view controller    *)
(* (language switching, mobile navigation, blog loading, form affordance,  *)
(* smooth scrolling) and the AnimationObserver.  The script runs on one UI  *)
(* thread, so every handler is one atomic action; the constructor's init() *)
(* is split into its five calls so that states inside initialization are   *)
(* visible.                                                                *)
(***************************************************************************)
EXTENDS Integers, Sequences, FiniteSets, TLC

\* ---------------------------------------------------------------- bounds
MaxPosts == 4            \* longest posts list a fetched body carries
MaxSubmits == 1          \* form submissions handled per page load
MaxResubmits == 1        \* further ones handled while a timer is pending

\* ------------------------------------------------------- program constants
RecentCount == 3         \* slice(0, 3)
ScrollMargin == 20       \* targetPosition = offsetTop - headerHeight - 20
ScrollThreshold == 100   \* window.scrollY > 100

\* ------------------------------------------------------------ environment
Languages == {"en", "fr"}
Null == "<null>"                              \* getItem() of a missing key
StoredValues == {Null, "en", "fr", "de"}      \* localStorage at page load
\* navigator.language as its sequence of '-'-separated subtags
NavigatorLanguages ==
    {<<"fr">>, <<"fr", "CA">>, <<"en", "US">>, <<"fra">>, <<"de", "fr">>}

\* minutes east of UTC of the browser's time zone
TimeZones == {0 - 300, 0, 60}

\* elements carrying data-en / data-fr, by the entries their dataset has
Elements == {"both", "enOnly", "frOnly", "submit"}
Dataset(el) == CASE el = "both"   -> {"en", "fr"}
                 [] el = "enOnly" -> {"en"}
                 [] el = "frOnly" -> {"fr"}
                 [] el = "submit" -> {"en", "fr"}

VARIABLES
    pc,               \* position inside the constructor's init(), then "idle"
    currentLanguage,  \* this.currentLanguage
    blogPosts,        \* this.blogPosts
    mobileNavOpen,    \* this.mobileNavOpen
    stored,           \* localStorage['preferredLanguage']
    docLang,          \* document.documentElement.lang
    langBtnActive,    \* lang -> the button carries class 'active'
    texts,            \* element -> the entry its textContent shows
    title,            \* document.title
    metaDescription,  \* meta[name=description].content
    ariaExpanded,     \* .nav-toggle aria-expanded
    menuActive,       \* .nav-menu carries class 'active'
    bodyOverflow,     \* document.body.style.overflow
    scrollTo,         \* <<>> or <<top>> of the last window.scrollTo
    urlHash,          \* fragment last pushed with history.pushState
    headerBg,         \* header background chosen by handleHeaderScroll
    fetchState,       \* "none" | "pending" | "rendered" | "fallback"
    fetchCount,       \* fetch('blog/posts.json') calls issued
    warnings,         \* console.warn calls
    container,        \* cards in #blog-posts
    submitDisabled,   \* submit button .disabled
    submitLoading,    \* submit button carries class 'loading'
    timers,           \* pending setTimeout callbacks: their originalText
    labelBefore,      \* per pending callback: the label shown when submitted
    submits,          \* submit events handled so far
    obsPc,            \* "new" until AnimationObserver.init() has run
    reducedMotion,    \* what matchMedia('(prefers-reduced-motion)') said
    elStyle,          \* animated element -> "markup" | "hidden" | "visible"
    observed,         \* targets of this.observer
    call,             \* a single call of a pure method, and its result
    last              \* the handler that ran last, with what it saw

langVars == <<currentLanguage, stored, docLang, langBtnActive, texts, title,
              metaDescription>>
navVars == <<mobileNavOpen, ariaExpanded, menuActive, bodyOverflow, scrollTo,
             urlHash>>
blogVars == <<blogPosts, fetchState, fetchCount, warnings, container>>
formVars == <<submitDisabled, submitLoading, timers, labelBefore, submits>>
obsVars == <<obsPc, reducedMotion, elStyle, observed>>
vars == <<pc, langVars, navVars, blogVars, formVars, headerBg, last, obsVars,
          call>>

\* -------------------------------------------------------- language state
LangState == [currentLanguage |-> currentLanguage, stored |-> stored,
              docLang |-> docLang, langBtnActive |-> langBtnActive,
              texts |-> texts, title |-> title,
              metaDescription |-> metaDescription, wrote |-> FALSE]

SetLang(r) ==
    /\ currentLanguage' = r.currentLanguage
    /\ stored' = r.stored
    /\ docLang' = r.docLang
    /\ langBtnActive' = r.langBtnActive
    /\ texts' = r.texts
    /\ title' = r.title
    /\ metaDescription' = r.metaDescription

\* updateTranslations(): an element is rewritten only when its dataset has an
\* entry for the current language; title and description always are.
updateTranslations(r) ==
    [r EXCEPT
        !.texts = [el \in Elements |->
                     IF r.currentLanguage \in Dataset(el)
                     THEN r.currentLanguage ELSE r.texts[el]],
        !.title = r.currentLanguage,
        !.metaDescription = r.currentLanguage]

switchLanguage_noGuard(r, lang) ==
    LET r1 == [r EXCEPT !.currentLanguage = lang,
                        !.langBtnActive = [l \in Languages |-> l = lang]]
        r2 == updateTranslations(r1)
    IN [r2 EXCEPT !.stored = lang, !.wrote = TRUE, !.docLang = lang]

switchLanguage_noStore(r, lang) ==
    IF lang = r.currentLanguage THEN r
    ELSE LET r1 == [r EXCEPT !.currentLanguage = lang,
                             !.langBtnActive = [l \in Languages |-> l = lang]]
             r2 == updateTranslations(r1)
         IN [r2 EXCEPT !.docLang = lang]

switchLanguage_noDocLang(r, lang) ==
    IF lang = r.currentLanguage THEN r
    ELSE LET r1 == [r EXCEPT !.currentLanguage = lang,
                             !.langBtnActive = [l \in Languages |-> l = lang]]
             r2 == updateTranslations(r1)
         IN [r2 EXCEPT !.stored = lang, !.wrote = TRUE]

switchLanguage(r, lang) ==
    IF lang = r.currentLanguage THEN r
    ELSE LET r1 == [r EXCEPT !.currentLanguage = lang,
                             !.langBtnActive = [l \in Languages |-> l = lang]]
             r2 == updateTranslations(r1)
         IN [r2 EXCEPT !.stored = lang, !.wrote = TRUE, !.docLang = lang]

\* navigator.language.split('-')[0]
PrimarySubtag(navLang) == Head(navLang)

resolveInitialLanguage_loose(storedLang, browserLang) ==
    IF storedLang # Null /\ storedLang # "" /\ storedLang \in {"en", "fr"}
    THEN storedLang
    ELSE IF browserLang # "en" THEN browserLang ELSE "en"

resolveInitialLanguage_browserFirst(storedLang, browserLang) ==
    IF browserLang \in {"fr"} THEN browserLang
    ELSE IF storedLang # Null /\ storedLang # "" /\ storedLang \in {"en", "fr"}
    THEN storedLang
    ELSE "en"

\* the initialLang computed by handleInitialLanguage()
resolveInitialLanguage(storedLang, browserLang) ==
    IF storedLang # Null /\ storedLang # "" /\ storedLang \in {"en", "fr"}
    THEN storedLang
    ELSE IF browserLang \in {"fr"} THEN browserLang ELSE "en"

\* ------------------------------------------------------------- nav state
NavState == [mobileNavOpen |-> mobileNavOpen, ariaExpanded |-> ariaExpanded,
             menuActive |-> menuActive, bodyOverflow |-> bodyOverflow,
             scrollTo |-> scrollTo, urlHash |-> urlHash,
             defaultPrevented |-> FALSE]

SetNav(n) ==
    /\ mobileNavOpen' = n.mobileNavOpen
    /\ ariaExpanded' = n.ariaExpanded
    /\ menuActive' = n.menuActive
    /\ bodyOverflow' = n.bodyOverflow
    /\ scrollTo' = n.scrollTo
    /\ urlHash' = n.urlHash

BoolToString(b) == IF b THEN "true" ELSE "false"

toggleMobileNav_noUnlock(n) ==
    LET open == ~n.mobileNavOpen
    IN [n EXCEPT !.mobileNavOpen = open,
                 !.ariaExpanded = BoolToString(open),
                 !.menuActive = open,
                 !.bodyOverflow = IF open THEN "hidden" ELSE n.bodyOverflow]

toggleMobileNav(n) ==
    LET open == ~n.mobileNavOpen
    IN [n EXCEPT !.mobileNavOpen = open,
                 !.ariaExpanded = BoolToString(open),
                 !.menuActive = open,
                 !.bodyOverflow = IF open THEN "hidden" ELSE ""]

closeMobileNav_keepsLock(n) ==
    IF ~n.mobileNavOpen THEN n
    ELSE [n EXCEPT !.mobileNavOpen = FALSE, !.ariaExpanded = "false",
                   !.menuActive = FALSE]

closeMobileNav(n) ==
    IF ~n.mobileNavOpen THEN n
    ELSE [n EXCEPT !.mobileNavOpen = FALSE, !.ariaExpanded = "false",
                   !.menuActive = FALSE, !.bodyOverflow = ""]

\* in-page elements that carry an id, with their offsetTop
ElementIds == {<<"a">>}
OffsetTop(id) == 500
HeaderHeight == 60
\* href values of the a[href^="#"] links, as character sequences
Hrefs == {<<"#", "a">>, <<"#", "z">>, <<"#">>}
\* getAttribute('href') of a click target that has no href: null
NoHref == <<>>

\* href.substring(1)
Substring1(href) == Tail(href)
\* document.getElementById(id) finds an element
HasElement(id) == id \in ElementIds

handleSmoothScroll_noClose(n, href) ==
    IF Len(href) > 0 /\ Head(href) = "#"
    THEN LET targetId == Substring1(href)
             n0 == [n EXCEPT !.defaultPrevented = TRUE]
         IN IF HasElement(targetId)
            THEN LET targetPosition ==
                         OffsetTop(targetId) - HeaderHeight - ScrollMargin
                     n1 == [n0 EXCEPT !.scrollTo = <<targetPosition>>]
                 IN [n1 EXCEPT !.urlHash = href]
            ELSE n0
    ELSE n

handleSmoothScroll_noMargin(n, href) ==
    IF Len(href) > 0 /\ Head(href) = "#"
    THEN LET targetId == Substring1(href)
             n0 == [n EXCEPT !.defaultPrevented = TRUE]
         IN IF HasElement(targetId)
            THEN LET targetPosition == OffsetTop(targetId) - HeaderHeight
                     n1 == [n0 EXCEPT !.scrollTo = <<targetPosition>>]
                     n2 == closeMobileNav(n1)
                 IN [n2 EXCEPT !.urlHash = href]
            ELSE n0
    ELSE n

handleSmoothScroll(n, href) ==
    IF Len(href) > 0 /\ Head(href) = "#"
    THEN LET targetId == Substring1(href)
             n0 == [n EXCEPT !.defaultPrevented = TRUE]
         IN IF HasElement(targetId)
            THEN LET targetPosition ==
                         OffsetTop(targetId) - HeaderHeight - ScrollMargin
                     n1 == [n0 EXCEPT !.scrollTo = <<targetPosition>>]
                     n2 == closeMobileNav(n1)
                 IN [n2 EXCEPT !.urlHash = href]
            ELSE n0
    ELSE n

\* the document-level click listener; inNav: e.target.closest('.nav'),
\* inToggle: e.target.closest('.nav-toggle')
documentClick(n, inNav, inToggle) ==
    IF n.mobileNavOpen /\ ~inNav /\ ~inToggle THEN closeMobileNav(n) ELSE n

\* the document-level keydown listener
documentKeydown(n, key) ==
    IF key = "Escape" /\ n.mobileNavOpen THEN closeMobileNav(n) ELSE n

\* ------------------------------------------------------------ blog posts
\* A LocalizedText: a plain string, a mapping from language code to string
\* ("" stands for a missing entry, which || treats alike), or null.
PlainText(str) == [type |-> "string", str |-> str, en |-> "", fr |-> ""]
Mapping(en, fr) == [type |-> "object", str |-> "", en |-> en, fr |-> fr]

getTranslatedText_noFallback(text, lang) ==
    IF text.type = "string" THEN text.str
    ELSE IF lang = "fr" THEN text.fr
    ELSE IF lang = "en" THEN text.en ELSE ""

\* getTranslatedText(text) under this.currentLanguage = lang
getTranslatedText(text, lang) ==
    IF text.type = "string" THEN text.str
    ELSE LET own == IF lang = "fr" THEN text.fr
                    ELSE IF lang = "en" THEN text.en ELSE ""
         IN IF own # "" THEN own ELSE text.en

\* An ISO date string 'YYYY-MM-DD' is the triple <<year, month, day>>.
IsLeapYear(y) == (y % 4 = 0 /\ y % 100 # 0) \/ y % 400 = 0
DaysInMonth(y, m) ==
    IF m = 2 THEN (IF IsLeapYear(y) THEN 28 + 1 ELSE 28)
    ELSE IF m \in {4, 6, 9, 11} THEN 30 ELSE 30 + 1
PreviousDay(d) ==
    IF d[3] > 1 THEN <<d[1], d[2], d[3] - 1>>
    ELSE IF d[2] > 1 THEN <<d[1], d[2] - 1, DaysInMonth(d[1], d[2] - 1)>>
    ELSE <<d[1] - 1, 12, DaysInMonth(d[1] - 1, 12)>>
MinutesPerDay == 24 * 60

\* the calendar date that toLocaleDateString() shows for new Date(dateString)
\* in a zone tz minutes east of UTC: a date-only string is midnight UTC, and
\* the zone's local day is the one before when tz is negative
LocalDate(dateString, tz) ==
    IF tz \div MinutesPerDay < 0 THEN PreviousDay(dateString) ELSE dateString

\* formatDate(dateString) under this.currentLanguage = lang, in a browser
\* whose zone is tz: the locale, and the year, month and day it spells out
formatDate(dateString, lang, tz) ==
    LET local == LocalDate(dateString, tz)
    IN [locale |-> IF lang = "fr" THEN "fr-FR" ELSE "en-US",
        year |-> local[1], month |-> local[2], day |-> local[3]]

\* entries of a fetched posts array: a post, or null
PostKinds == {"both", "enOnly", "null"}
Post(i, kind) ==
    [id |-> i, isNull |-> kind = "null",
     title |-> IF kind = "both" THEN Mapping("A", "B") ELSE Mapping("A", ""),
     excerpt |-> IF kind = "both" THEN Mapping("A", "B") ELSE Mapping("A", ""),
     date |-> <<2024, 1, 15>>, url |-> "blog/post.html"]
\* n posts with both entries; 1 and MaxPosts entries of which the last is
\* null; one post that has no fr entry
PostLists ==
    {[i \in 1..n |-> Post(i, "both")] : n \in 0..MaxPosts}
    \cup {[i \in 1..n |-> Post(i, IF i = n THEN "null" ELSE "both")] :
             n \in {1, MaxPosts}}
    \cup {<<Post(1, "enOnly")>>}

\* the value of data.posts || []: an array, or something that is not one
Array(items) == [isArray |-> TRUE, items |-> items]
NotArray == [isArray |-> FALSE, items |-> <<>>]

\* what the fetch can come back with
Bodies == {[shape |-> sh, posts |-> <<>>] :
               sh \in {"malformed", "null", "noPosts", "notArray"}}
          \cup {[shape |-> "posts", posts |-> ps] : ps \in PostLists}
Outcomes == {[kind |-> "networkError", ok |-> FALSE,
              body |-> [shape |-> "malformed", posts |-> <<>>]]}
            \cup {[kind |-> "response", ok |-> FALSE, body |-> b] :
                      b \in {[shape |-> "malformed", posts |-> <<>>]}}
            \cup {[kind |-> "response", ok |-> TRUE, body |-> b] : b \in Bodies}

\* the placeholderPosts literal of renderBlogPlaceholder()
placeholderPosts ==
    << [id |-> 1, isNull |-> FALSE, title |-> Mapping("P1en", "P1fr"),
        excerpt |-> Mapping("P1en", "P1fr"), date |-> <<2024, 1, 15>>, url |-> "#"],
       [id |-> 2, isNull |-> FALSE, title |-> Mapping("P2en", "P2fr"),
        excerpt |-> Mapping("P2en", "P2fr"), date |-> <<2024, 1, 8>>, url |-> "#"],
       [id |-> 3, isNull |-> FALSE, title |-> Mapping("P3en", "P3fr"),
        excerpt |-> Mapping("P3en", "P3fr"), date |-> <<2024, 1, 1>>, url |-> "#"] >>

Card_languageAtFetchStart(src, post, lang, tz) ==
    [src |-> src, id |-> post.id, url |-> post.url,
     title |-> getTranslatedText(post.title, "en"),
     date |-> formatDate(post.date, "en", tz),
     excerpt |-> getTranslatedText(post.excerpt, "en"), style |-> "markup"]

\* one <article class="blog-post"> of the template literal; it is created
\* without a style attribute
Card(src, post, lang, tz) ==
    [src |-> src, id |-> post.id, url |-> post.url,
     title |-> getTranslatedText(post.title, lang),
     date |-> formatDate(post.date, lang, tz),
     excerpt |-> getTranslatedText(post.excerpt, lang), style |-> "markup"]

Slice3_noLimit(items) == items

\* posts.slice(0, 3)
Slice3(items) == SubSeq(items, 1, IF Len(items) < RecentCount THEN Len(items)
                                  ELSE RecentCount)

renderBlogPlaceholder_two(lang, tz) ==
    [i \in 1..2 |-> Card("placeholder", placeholderPosts[i], lang, tz)]

\* renderBlogPlaceholder(): the new content of #blog-posts
renderBlogPlaceholder(lang, tz) ==
    [i \in 1..Len(placeholderPosts) |->
        Card("placeholder", placeholderPosts[i], lang, tz)]

\* renderBlogPosts(): [threw, container]; container is the new content of
\* #blog-posts, which is assigned only when the whole map() has run
renderBlogPosts(posts, lang, tz, old) ==
    IF ~posts.isArray THEN [threw |-> TRUE, container |-> old]
    ELSE IF Len(posts.items) = 0
    THEN [threw |-> FALSE, container |-> renderBlogPlaceholder(lang, tz)]
    ELSE LET recentPosts == Slice3(posts.items)
         IN IF \E i \in 1..Len(recentPosts) : recentPosts[i].isNull
            THEN [threw |-> TRUE, container |-> old]
            ELSE [threw |-> FALSE,
                  container |-> [i \in 1..Len(recentPosts) |->
                                    Card("post", recentPosts[i], lang, tz)]]

BlogState == [blogPosts |-> blogPosts, fetchState |-> fetchState,
              fetchCount |-> fetchCount, warnings |-> warnings,
              container |-> container]

SetBlog(b) ==
    /\ blogPosts' = b.blogPosts
    /\ fetchState' = b.fetchState
    /\ fetchCount' = b.fetchCount
    /\ warnings' = b.warnings
    /\ container' = b.container

\* the catch block of loadBlogPosts()
CatchBlock_retry(b, lang, tz) ==
    [b EXCEPT !.warnings = b.warnings + 1, !.fetchState = "pending",
              !.fetchCount = b.fetchCount + 1,
              !.container = renderBlogPlaceholder(lang, tz)]

CatchBlock(b, lang, tz) ==
    [b EXCEPT !.warnings = b.warnings + 1, !.fetchState = "fallback",
              !.container = renderBlogPlaceholder(lang, tz)]

loadBlogPostsContinue_noStore(b, o, lang, tz) ==
    IF o.kind = "networkError" \/ ~o.ok \/ o.body.shape = "malformed"
       \/ o.body.shape = "null"
    THEN CatchBlock(b, lang, tz)
    ELSE LET posts == IF o.body.shape = "notArray" THEN NotArray
                      ELSE IF o.body.shape = "noPosts" THEN Array(<<>>)
                      ELSE Array(o.body.posts)
             r == renderBlogPosts(posts, lang, tz, b.container)
         IN IF r.threw THEN CatchBlock(b, lang, tz)
            ELSE [b EXCEPT !.fetchState = "rendered",
                           !.container = r.container]

\* loadBlogPosts() from the point where the fetch settles with outcome o
loadBlogPostsContinue(b, o, lang, tz) ==
    IF o.kind = "networkError" \/ ~o.ok \/ o.body.shape = "malformed"
       \/ o.body.shape = "null"
    THEN CatchBlock(b, lang, tz)
    ELSE LET posts == IF o.body.shape = "notArray" THEN NotArray
                      ELSE IF o.body.shape = "noPosts" THEN Array(<<>>)
                      ELSE Array(o.body.posts)
             b1 == [b EXCEPT !.blogPosts = posts]
             r == renderBlogPosts(posts, lang, tz, b.container)
         IN IF r.threw THEN CatchBlock(b1, lang, tz)
            ELSE [b1 EXCEPT !.fetchState = "rendered",
                            !.container = r.container]

\* ------------------------------------------------------------------ form
\* textContent of the submit button: an entry of its dataset, or loadingText
LoadingText(lang) == IF lang = "fr" THEN "Envoi..." ELSE "Sending..."

\* ------------------------------------------------------ AnimationObserver
\* elements matching '.project-card, .blog-post, .contact-method, .skill-tag'
\* when AnimationObserver.init() runs
AnimatedElements == {"project-card", "contact-method", "skill-tag"}

ObserverState == [elStyle |-> elStyle, observed |-> observed]

SetObserver(o) ==
    /\ elStyle' = o.elStyle
    /\ observed' = o.observed

observerInit_hidesUnwatched(o, reduced) ==
    IF reduced THEN o
    ELSE [elStyle |-> [el \in AnimatedElements |-> "hidden"],
          observed |-> AnimatedElements \ {"skill-tag"}]

observerInit_ignoresPreference(o, reduced) ==
    [elStyle |-> [el \in AnimatedElements |-> "hidden"],
     observed |-> AnimatedElements]

\* AnimationObserver.init(), reduced being the answer of
\* matchMedia('(prefers-reduced-motion: reduce)')
observerInit(o, reduced) ==
    IF reduced THEN o
    ELSE [elStyle |-> [el \in AnimatedElements |-> "hidden"],
          observed |-> AnimatedElements]

\* the entries of one callback: for some observed targets, isIntersecting
EntryLists(targets) ==
    UNION {[ts -> BOOLEAN] : ts \in (SUBSET targets) \ {{}}}

Intersecting(entries) == {el \in DOMAIN entries : entries[el]}

handleIntersection_noUnobserve(o, entries) ==
    [elStyle |-> [el \in AnimatedElements |->
                     IF el \in Intersecting(entries) THEN "visible"
                     ELSE o.elStyle[el]],
     observed |-> o.observed]

\* handleIntersection(entries)
handleIntersection(o, entries) ==
    [elStyle |-> [el \in AnimatedElements |->
                     IF el \in Intersecting(entries) THEN "visible"
                     ELSE o.elStyle[el]],
     observed |-> o.observed \ Intersecting(entries)]

\* ------------------------------------------------------- the last handler
NoEvent ==
    [op |-> "constructor", lang |-> "", found |-> FALSE,
     changed |-> FALSE, wrote |-> FALSE,
     openBefore |-> FALSE, overflowBefore |-> "",
     twice |-> FALSE, openBefore2 |-> FALSE, overflowBefore2 |-> "",
     storedLang |-> "", navLang |-> <<>>, cause |-> "", fetched |-> <<>>,
     prevented |-> FALSE, seen |-> {}, hit |-> {}, outsideOpenNav |-> FALSE]

Event(op) ==
    [NoEvent EXCEPT !.op = op, !.openBefore = mobileNavOpen,
                    !.overflowBefore = bodyOverflow]

\* ------------------------------------------------------------------ Init
\* what #blog-posts holds in the markup, stood for by one item
MarkupCard ==
    [src |-> "markup", id |-> 0, url |-> "", title |-> "",
     date |-> [locale |-> "", year |-> 0, month |-> 0, day |-> 0],
     excerpt |-> "", style |-> "markup"]

NoCall == [fn |-> "", text |-> PlainText(""), lang |-> "", date |-> <<>>,
           tz |-> 0, done |-> FALSE, string |-> "",
           formatted |-> [locale |-> "", year |-> 0, month |-> 0, day |-> 0]]

\* the state when the constructor has assigned its three fields (lines 8-10)
\* and init() has not started; the DOM is the markup's: English, nav closed
PageLoaded ==
    /\ pc = "constructed"
    /\ currentLanguage = "en"
    /\ blogPosts = Array(<<>>)
    /\ mobileNavOpen = FALSE
    /\ stored \in StoredValues
    /\ docLang = "en"
    /\ langBtnActive = [l \in Languages |-> l = "en"]
    /\ texts = [el \in Elements |-> "markup"]
    /\ title = "markup"
    /\ metaDescription = "markup"
    /\ ariaExpanded = "false"
    /\ menuActive = FALSE
    /\ bodyOverflow = ""
    /\ scrollTo = <<>>
    /\ urlHash = <<>>
    /\ headerBg = "markup"
    /\ fetchState = "none"
    /\ fetchCount = 0
    /\ warnings = 0
    /\ container = <<MarkupCard>>
    /\ submitDisabled = FALSE
    /\ submitLoading = FALSE
    /\ timers = <<>>
    /\ labelBefore = <<>>
    /\ submits = 0
    /\ last = NoEvent
    /\ obsPc = "new"
    /\ reducedMotion = FALSE
    /\ elStyle = [el \in AnimatedElements |-> "markup"]
    /\ observed = {}

Init == PageLoaded /\ call = NoCall

\* --------------------------------------------------------------- init()
SetupEventListeners ==
    /\ pc = "constructed"
    /\ pc' = "listening"
    /\ last' = Event("setupEventListeners")
    /\ UNCHANGED <<langVars, navVars, blogVars, formVars, headerBg, obsVars,
                   call>>

LoadBlogPosts_sync ==
    /\ pc = "listening"
    /\ pc' = "loading"
    /\ fetchCount' = fetchCount + 1
    /\ fetchState' = "fallback"
    /\ warnings' = warnings + 1
    /\ container' = renderBlogPlaceholder(currentLanguage, 0)
    /\ last' = Event("loadBlogPosts")
    /\ UNCHANGED <<langVars, navVars, blogPosts,
                   formVars, headerBg, obsVars, call>>

\* loadBlogPosts() up to its first await: the fetch is issued
LoadBlogPosts ==
    /\ pc = "listening"
    /\ pc' = "loading"
    /\ fetchCount' = fetchCount + 1
    /\ fetchState' = "pending"
    /\ last' = Event("loadBlogPosts")
    /\ UNCHANGED <<langVars, navVars, blogPosts, warnings, container,
                   formVars, headerBg, obsVars, call>>

UpdateCopyrightYear ==
    /\ pc = "loading"
    /\ pc' = "dated"
    /\ SetLang(updateTranslations(LangState))
    /\ last' = Event("updateCopyrightYear")
    /\ UNCHANGED <<navVars, blogVars, formVars, headerBg, obsVars, call>>

InitSmoothScrolling ==
    /\ pc = "dated"
    /\ pc' = "smooth"
    /\ last' = Event("initSmoothScrolling")
    /\ UNCHANGED <<langVars, navVars, blogVars, formVars, headerBg, obsVars,
                   call>>

HandleInitialLanguage ==
    /\ pc = "smooth"
    /\ \E navLang \in NavigatorLanguages :
         LET storedLang == stored
             browserLang == PrimarySubtag(navLang)
             initialLang == resolveInitialLanguage(storedLang, browserLang)
             r == switchLanguage(LangState, initialLang)
         IN /\ SetLang(r)
            /\ last' = [Event("handleInitialLanguage") EXCEPT
                          !.lang = initialLang, !.storedLang = storedLang,
                          !.navLang = navLang, !.wrote = r.wrote,
                          !.changed = (initialLang # currentLanguage)]
    /\ pc' = "idle"
    /\ UNCHANGED <<navVars, blogVars, formVars, headerBg, obsVars, call>>

\* ---------------------------------------------------------------- events
\* a click on a .lang-btn carrying data-lang = lang
ClickLangBtn(lang, inNav) ==
    /\ pc = "idle"
    /\ LET r == switchLanguage(LangState, lang)
       IN /\ SetLang(r)
          /\ last' = [Event("switchLanguage") EXCEPT
                        !.lang = lang, !.wrote = r.wrote,
                        !.outsideOpenNav = (mobileNavOpen /\ ~inNav),
                        !.changed = (lang # currentLanguage)]
    /\ SetNav(documentClick(NavState, inNav, FALSE))
    /\ UNCHANGED <<pc, blogVars, formVars, headerBg, obsVars, call>>

\* a click on the .nav-toggle
ClickNavToggle(inNav) ==
    /\ pc = "idle"
    /\ SetNav(documentClick(toggleMobileNav(NavState), inNav, TRUE))
    /\ last' = [Event("toggleMobileNav") EXCEPT
                  !.twice = (last.op = "toggleMobileNav"),
                  !.openBefore2 = last.openBefore,
                  !.overflowBefore2 = last.overflowBefore]
    /\ UNCHANGED <<pc, langVars, blogVars, formVars, headerBg, obsVars, call>>

\* a click on a .nav-link of the menu, itself an a[href^="#"]
ClickNavLink(href, inNav) ==
    /\ pc = "idle"
    /\ LET n == handleSmoothScroll(closeMobileNav(NavState), href)
       IN /\ SetNav(documentClick(n, inNav, FALSE))
          /\ last' = [Event("navLink") EXCEPT
                        !.found = HasElement(Substring1(href)),
                        !.prevented = n.defaultPrevented]
    /\ UNCHANGED <<pc, langVars, blogVars, formVars, headerBg, obsVars, call>>

\* a click on any other a[href^="#"]
ClickAnchor(href, inNav) ==
    /\ pc = "idle"
    /\ LET n == handleSmoothScroll(NavState, href)
       IN /\ SetNav(documentClick(n, inNav, FALSE))
          /\ last' = [Event("anchor") EXCEPT
                        !.found = (href # NoHref
                                   /\ HasElement(Substring1(href))),
                        !.prevented = n.defaultPrevented]
    /\ UNCHANGED <<pc, langVars, blogVars, formVars, headerBg, obsVars, call>>

\* a click on an element that has no listener of its own
ClickElsewhere(inNav) ==
    /\ pc = "idle"
    /\ SetNav(documentClick(NavState, inNav, FALSE))
    /\ last' = Event(IF inNav THEN "clickInNav" ELSE "clickOutside")
    /\ UNCHANGED <<pc, langVars, blogVars, formVars, headerBg, obsVars, call>>

KeyDown(key) ==
    /\ pc = "idle"
    /\ SetNav(documentKeydown(NavState, key))
    /\ last' = Event(IF key = "Escape" THEN "escape" ELSE "keydown")
    /\ UNCHANGED <<pc, langVars, blogVars, formVars, headerBg, obsVars, call>>

Scroll_closesNav(scrollY) ==
    /\ pc = "idle"
    /\ headerBg' = IF scrollY > ScrollThreshold THEN "0.98" ELSE "0.95"
    /\ SetNav(closeMobileNav(NavState))
    /\ last' = Event("scroll")
    /\ UNCHANGED <<pc, langVars, blogVars, formVars, obsVars, call>>

\* handleHeaderScroll() with window.scrollY = scrollY
Scroll(scrollY) ==
    /\ pc = "idle"
    /\ headerBg' = IF scrollY > ScrollThreshold THEN "0.98" ELSE "0.95"
    /\ last' = Event("scroll")
    /\ UNCHANGED <<pc, langVars, navVars, blogVars, formVars, obsVars, call>>

SubmitForm_capturesLate ==
    /\ pc = "idle"
    /\ submits < MaxSubmits
    /\ ~submitDisabled
    /\ submits' = submits + 1
    /\ submitLoading' = TRUE
    /\ submitDisabled' = TRUE
    /\ timers' = Append(timers, LoadingText(currentLanguage))
    /\ labelBefore' = Append(labelBefore, texts["submit"])
    /\ texts' = [texts EXCEPT !["submit"] = LoadingText(currentLanguage)]
    /\ last' = Event("submit")
    /\ UNCHANGED <<pc, currentLanguage, stored, docLang, langBtnActive, title,
                   metaDescription, navVars, blogVars, headerBg, obsVars, call>>

\* handleFormSubmission(e)
handleFormSubmission ==
    /\ pc = "idle"
    /\ submits' = submits + 1
    /\ submitLoading' = TRUE
    /\ submitDisabled' = TRUE
    /\ timers' = Append(timers, texts["submit"])
    /\ labelBefore' = Append(labelBefore, texts["submit"])
    /\ texts' = [texts EXCEPT !["submit"] = LoadingText(currentLanguage)]
    /\ last' = Event("submit")
    /\ UNCHANGED <<pc, currentLanguage, stored, docLang, langBtnActive, title,
                   metaDescription, navVars, blogVars, headerBg, obsVars, call>>

\* a submit event of the contact form, made with its enabled submit control
SubmitForm ==
    /\ submits < MaxSubmits
    /\ ~submitDisabled
    /\ handleFormSubmission

\* a further submit event handled while an earlier one's timer is pending
Resubmit ==
    /\ timers # <<>>
    /\ submits < MaxSubmits + MaxResubmits
    /\ handleFormSubmission

\* the setTimeout callback of the oldest pending submission
TimerFire ==
    /\ pc = "idle"
    /\ timers # <<>>
    /\ submitLoading' = FALSE
    /\ submitDisabled' = FALSE
    /\ texts' = [texts EXCEPT !["submit"] = Head(timers)]
    /\ timers' = Tail(timers)
    /\ labelBefore' = Tail(labelBefore)
    /\ UNCHANGED submits
    /\ last' = Event("timer")
    /\ UNCHANGED <<pc, currentLanguage, stored, docLang, langBtnActive, title,
                   metaDescription, navVars, blogVars, headerBg, obsVars, call>>

\* handleFormSubmission() does not call e.preventDefault(): the browser goes
\* on to submit the form natively (README: <form class="contact-form"
\* action="https://formspree.io/f/..." method="POST">), and when the response
\* arrives the document is replaced; its pending timers go with it
Unload ==
    /\ pc = "idle"
    /\ submits > 0
    /\ pc' = "unloaded"
    /\ last' = Event("unload")
    /\ UNCHANGED <<langVars, navVars, blogVars, formVars, headerBg, obsVars,
                   call>>

\* the fetch settles and loadBlogPosts() runs to its end
FetchComplete(o, tz) ==
    /\ pc = "idle"
    /\ fetchState = "pending"
    /\ SetBlog(loadBlogPostsContinue(BlogState, o, currentLanguage, tz))
    /\ last' = [Event("fetchComplete") EXCEPT
                  !.cause = IF o.kind = "networkError" THEN "networkError"
                            ELSE IF ~o.ok THEN "status"
                            ELSE o.body.shape,
                  !.fetched = IF o.kind = "response" /\ o.ok
                              THEN o.body.posts ELSE <<>>]
    /\ UNCHANGED <<pc, langVars, navVars, formVars, headerBg, obsVars, call>>

Next ==
    \/ SetupEventListeners
    \/ LoadBlogPosts
    \/ UpdateCopyrightYear
    \/ InitSmoothScrolling
    \/ HandleInitialLanguage
    \/ \E lang \in Languages, inNav \in BOOLEAN : ClickLangBtn(lang, inNav)
    \/ \E inNav \in BOOLEAN : ClickNavToggle(inNav)
    \/ \E href \in Hrefs, inNav \in BOOLEAN : ClickNavLink(href, inNav)
    \/ \E href \in Hrefs \cup {NoHref}, inNav \in BOOLEAN :
          ClickAnchor(href, inNav)
    \/ \E inNav \in BOOLEAN : ClickElsewhere(inNav)
    \/ \E key \in {"Escape", "Enter"} : KeyDown(key)
    \/ \E scrollY \in {0, ScrollThreshold, ScrollThreshold + 1} :
          Scroll(scrollY)
    \/ SubmitForm
    \/ TimerFire
    \/ \E o \in Outcomes : FetchComplete(o, 0)

Spec == Init /\ [][Next]_vars

\* new AnimationObserver(), in the DOMContentLoaded handler right after
\* new PortfolioSite(): before any event and before the fetch settles
ObserverInit(reduced) ==
    /\ pc = "idle"
    /\ obsPc = "new"
    /\ last.op = "handleInitialLanguage"
    /\ obsPc' = "done"
    /\ reducedMotion' = reduced
    /\ SetObserver(observerInit(ObserverState, reduced))
    /\ last' = Event("observerInit")
    /\ UNCHANGED <<pc, langVars, navVars, blogVars, formVars, headerBg, call>>

\* the IntersectionObserver calls back with entries for observed targets
Intersect(entries) ==
    /\ obsPc = "done"
    /\ DOMAIN entries \subseteq observed
    /\ SetObserver(handleIntersection(ObserverState, entries))
    /\ last' = [Event("intersection") EXCEPT
                  !.seen = DOMAIN entries,
                  !.hit = Intersecting(entries)]
    /\ UNCHANGED <<pc, obsPc, reducedMotion, langVars, navVars, blogVars,
                   formVars, headerBg, call>>

\* The page with its AnimationObserver: initialization of the controller,
\* then of the observer, then the observer's callbacks and the completion
\* of the fetch, which renders the post cards.
NextObserver ==
    \/ SetupEventListeners
    \/ LoadBlogPosts
    \/ UpdateCopyrightYear
    \/ InitSmoothScrolling
    \/ HandleInitialLanguage
    \/ \E reduced \in BOOLEAN : ObserverInit(reduced)
    \/ \E entries \in EntryLists(AnimatedElements) : Intersect(entries)
    \/ (obsPc = "done" /\ \E o \in Outcomes : FetchComplete(o, 0))

SpecObserver == Init /\ [][NextObserver]_vars

\* Navigation on its own: initialization, then the clicks and keys that the
\* nav toggle, the nav links, the anchors and the document listen to.
NextNav ==
    \/ SetupEventListeners
    \/ LoadBlogPosts
    \/ UpdateCopyrightYear
    \/ InitSmoothScrolling
    \/ HandleInitialLanguage
    \/ \E inNav \in BOOLEAN : ClickNavToggle(inNav)
    \/ \E href \in Hrefs, inNav \in BOOLEAN : ClickNavLink(href, inNav)
    \/ \E href \in Hrefs \cup {NoHref}, inNav \in BOOLEAN :
          ClickAnchor(href, inNav)
    \/ \E inNav \in BOOLEAN : ClickElsewhere(inNav)
    \/ \E key \in {"Escape", "Enter"} : KeyDown(key)

SpecNav == Init /\ [][NextNav]_vars

\* The two pure methods on their own: one call of getTranslatedText(text) or
\* of formatDate(dateString), under a current language and in a time zone.
Strings == {"", "A", "B"}
LocalizedTexts ==
    {PlainText(str) : str \in Strings}
    \cup {Mapping(en, fr) : en \in Strings, fr \in Strings}
IsoDates == {<<2024, 1, 15>>, <<2024, 1, 8>>, <<2024, 1, 1>>,
             <<2024, 3, 1>>, <<2023, 3, 1>>, <<2024, 12, 31>>}
Calls ==
    {[NoCall EXCEPT !.fn = "getTranslatedText", !.text = text, !.lang = lang] :
        text \in LocalizedTexts, lang \in Languages}
    \cup {[NoCall EXCEPT !.fn = "formatDate", !.date = d, !.lang = lang,
                         !.tz = tz] :
             d \in IsoDates, lang \in Languages, tz \in TimeZones}

InitPure ==
    /\ PageLoaded
    /\ stored = Null
    /\ call \in Calls

CallGetTranslatedText ==
    /\ call.fn = "getTranslatedText"
    /\ ~call.done
    /\ call' = [call EXCEPT !.done = TRUE,
                            !.string = getTranslatedText(call.text, call.lang)]
    /\ UNCHANGED <<pc, langVars, navVars, blogVars, formVars, headerBg, last,
                   obsVars>>

CallFormatDate ==
    /\ call.fn = "formatDate"
    /\ ~call.done
    /\ call' = [call EXCEPT !.done = TRUE,
                            !.formatted = formatDate(call.date, call.lang,
                                                     call.tz)]
    /\ UNCHANGED <<pc, langVars, navVars, blogVars, formVars, headerBg, last,
                   obsVars>>

NextPure == CallGetTranslatedText \/ CallFormatDate

SpecPure == InitPure /\ [][NextPure]_vars

\* The contact form on its own: initialization, language buttons, scrolling
\* (the form is at the foot of the page), submit events, also while a timer
\* is pending, their timers, and the navigation of the native submission.  A
\* due timer callback is run by the browser as long as the document is
\* loaded, hence weak fairness on TimerFire.
NextForm ==
    \/ SetupEventListeners
    \/ LoadBlogPosts
    \/ UpdateCopyrightYear
    \/ InitSmoothScrolling
    \/ HandleInitialLanguage
    \/ \E lang \in Languages, inNav \in BOOLEAN : ClickLangBtn(lang, inNav)
    \/ \E scrollY \in {0, ScrollThreshold + 1} : Scroll(scrollY)
    \/ SubmitForm
    \/ Resubmit
    \/ TimerFire
    \/ Unload

SpecForm == Init /\ [][NextForm]_vars /\ WF_vars(TimerFire)

\* ================================================================ claims

\* C1: activeLanguage is en or fr in every reachable state: at construction,
\* after initial-language resolution and after any sequence of events.
C1_ActiveLanguageValid == currentLanguage \in Languages

\* a language button has switched the page to fr after initialization
C1_Witness ==
    /\ pc = "idle"
    /\ last.op = "switchLanguage"
    /\ last.changed
    /\ currentLanguage = "fr"

\* C2 as stated: once initialization has completed, the stored preference and
\* the declared language both equal activeLanguage.
C2_Original ==
    pc = "idle" => (stored = currentLanguage /\ docLang = currentLanguage)

\* C2 amended: after every switchLanguage call that changes the language the
\* stored preference and the declared language equal activeLanguage; they do
\* whenever activeLanguage is fr; and once initialization has completed a
\* stored value that is en or fr equals activeLanguage.  (A call with the
\* current language writes nothing, so a missing or invalid stored value
\* survives an initial resolution to en.)
C2_Amended ==
    /\ (last.op \in {"switchLanguage", "handleInitialLanguage"} /\ last.changed)
          => (stored = currentLanguage /\ docLang = currentLanguage)
    /\ currentLanguage = "fr" => (stored = "fr" /\ docLang = "fr")
    /\ (pc = "idle" /\ stored \in Languages) => stored = currentLanguage

\* the page was switched back from fr to en: both follow
C2_Witness ==
    /\ last.op = "switchLanguage"
    /\ last.changed
    /\ currentLanguage = "en"
    /\ stored = "en"
    /\ docLang = "en"

\* C3 as stated: after switchLanguage(lang), lang in {en, fr}, from any
\* reachable state, activeLanguage, the stored preference and the declared
\* language all equal lang.
C3_Original ==
    last.op \in {"switchLanguage", "handleInitialLanguage"}
       => /\ currentLanguage = last.lang
          /\ stored = last.lang
          /\ docLang = last.lang

\* C3 amended: after switchLanguage(lang) activeLanguage equals lang; when
\* the call changes the language, or lang is fr, the stored preference and
\* the declared language equal lang too; the storage write happens on every
\* call that changes the language.
C3_Amended ==
    last.op \in {"switchLanguage", "handleInitialLanguage"}
       => /\ currentLanguage = last.lang
          /\ (last.changed \/ last.lang = "fr")
                => (stored = last.lang /\ docLang = last.lang)
          /\ last.changed => last.wrote

\* switchLanguage('fr') has just changed the language
C3_Witness ==
    /\ last.op = "switchLanguage"
    /\ last.lang = "fr"
    /\ last.changed
    /\ last.wrote
    /\ stored = "fr"

\* C4: the language after initialization is a function of the stored value
\* and the browser locale: the stored value when it is en or fr, otherwise fr
\* exactly when the locale's primary subtag is fr, otherwise en.
C4_InitialLanguage ==
    last.op = "handleInitialLanguage"
       => currentLanguage =
             IF last.storedLang \in {"en", "fr"} THEN last.storedLang
             ELSE IF last.navLang[1] = "fr" THEN "fr" ELSE "en"

\* an invalid stored value and the locale fr-CA resolve to fr
C4_Witness ==
    /\ last.op = "handleInitialLanguage"
    /\ last.storedLang = "de"
    /\ last.navLang = <<"fr", "CA">>
    /\ currentLanguage = "fr"

\* C5: switchLanguage(lang) with lang the current language writes nothing to
\* storage and changes neither activeLanguage nor the DOM (button indicators,
\* texts, title, description, declared language).
C5_SameLanguageNoOp ==
    [][(/\ last'.op \in {"switchLanguage", "handleInitialLanguage"}
        /\ last'.lang = currentLanguage)
          => (UNCHANGED langVars /\ ~last'.wrote)]_vars

\* fr was clicked while the page was in fr
C5_Witness ==
    /\ last.op = "switchLanguage"
    /\ last.lang = "fr"
    /\ ~last.changed
    /\ currentLanguage = "fr"

\* C6: mobileNavOpen holds exactly when the toggle says expanded and the menu
\* is active, and exactly when body scroll is locked.
C6_NavConsistent ==
    /\ mobileNavOpen = (ariaExpanded = "true")
    /\ mobileNavOpen = menuActive
    /\ mobileNavOpen = (bodyOverflow = "hidden")

\* Escape has closed an open nav
C6_Witness ==
    /\ last.op = "escape"
    /\ last.openBefore
    /\ last.overflowBefore = "hidden"
    /\ ~mobileNavOpen
    /\ bodyOverflow = ""

CloseTriggers == {"navLink", "clickOutside", "escape"}

\* C7 as stated: after a nav-link click, an outside click, Escape or a click
\* on any same-page anchor link, mobileNavOpen is false.
C7_Original ==
    last.op \in CloseTriggers \cup {"anchor"} => ~mobileNavOpen

\* C7 amended: after a nav-link click, an outside click, Escape or a click on
\* a same-page anchor link whose target element exists, mobileNavOpen is
\* false.
C7_Amended ==
    (\/ last.op \in CloseTriggers
     \/ (last.op = "anchor" /\ last.found)) => ~mobileNavOpen

\* a smooth scroll to an existing target has closed an open nav
C7_Witness ==
    /\ last.op = "anchor"
    /\ last.found
    /\ last.openBefore
    /\ ~mobileNavOpen
    /\ scrollTo # <<>>

\* C8 as stated: two toggleMobileNav calls in succession return mobileNavOpen
\* to its value before them and leave body scroll unlocked.
C8_Original ==
    (last.op = "toggleMobileNav" /\ last.twice)
       => (mobileNavOpen = last.openBefore2 /\ bodyOverflow = "")

\* C8 amended: two toggleMobileNav calls in succession return mobileNavOpen
\* and the body scroll lock to what they were before them: unlocked when the
\* nav was closed, locked when it was open.
C8_Amended ==
    (last.op = "toggleMobileNav" /\ last.twice)
       => /\ mobileNavOpen = last.openBefore2
          /\ bodyOverflow = last.overflowBefore2
          /\ ~last.openBefore2 => bodyOverflow = ""
          /\ last.openBefore2 => bodyOverflow = "hidden"

\* the nav was opened and closed again by two toggle clicks
C8_Witness ==
    /\ last.op = "toggleMobileNav"
    /\ last.twice
    /\ ~last.openBefore2
    /\ last.openBefore
    /\ ~mobileNavOpen
    /\ bodyOverflow = ""

\* C9: one fetch per page load: issued by init(), never issued again by a
\* failure or a user event, so at most one is in flight.
C9_OneFetch ==
    /\ fetchCount <= 1
    /\ fetchCount = (IF pc \in {"constructed", "listening"} THEN 0 ELSE 1)
    /\ (fetchState = "pending") => fetchCount = 1
    /\ (fetchState = "none") = (fetchCount = 0)

\* the fetch has failed, and a language switch, a smooth scroll, a form
\* submit and a scroll have been handled
C9_Witness ==
    /\ fetchState = "fallback"
    /\ fetchCount = 1
    /\ currentLanguage = "fr"
    /\ urlHash # <<>>
    /\ submits > 0
    /\ headerBg # "markup"

FailureCauses == {"networkError", "status", "malformed", "null", "notArray"}
RenderThrows ==
    /\ last.cause = "posts"
    /\ \E i \in 1..Len(Slice3(blogPosts.items)) : blogPosts.items[i].isNull

\* C10: every fetch failure (network error, non-2xx status, malformed body,
\* a shape on which rendering throws) leaves exactly the 3 placeholder posts
\* in the container, in their order, logs one warning and issues no retry.
C10_FailureShowsPlaceholders ==
    /\ (last.op = "fetchComplete" /\ (last.cause \in FailureCauses
                                      \/ RenderThrows))
          => fetchState = "fallback"
    /\ fetchState = "fallback"
          => /\ Len(container) = 3
             /\ \A i \in 1..3 :
                   /\ container[i].src = "placeholder"
                   /\ container[i].id = i
                   /\ container[i].title \in {placeholderPosts[i].title.en,
                                              placeholderPosts[i].title.fr}
             /\ warnings = 1
             /\ fetchCount = 1

\* a posts array with a null entry made rendering throw
C10_Witness ==
    /\ last.op = "fetchComplete"
    /\ RenderThrows
    /\ fetchState = "fallback"
    /\ Len(container) = 3

\* a 2xx response whose JSON is an object: data.posts is a list, or absent
SuccessfulFetch ==
    /\ last.op = "fetchComplete"
    /\ last.cause \in {"posts", "noPosts"}

C12_AtMostThreeCards ==
    /\ Len(container) <= RecentCount
    /\ fetchState \in {"rendered", "fallback"}
          => \A i \in 1..Len(container) : container[i].src # "markup"
    /\ (SuccessfulFetch /\ Len(last.fetched) >= RecentCount /\ ~RenderThrows)
          => /\ Len(container) = RecentCount
             /\ \A i \in 1..RecentCount :
                   /\ container[i].src = "post"
                   /\ container[i].id = last.fetched[i].id

\* a list of 4 posts was fetched and the first 3 are shown
C12_Witness ==
    /\ SuccessfulFetch
    /\ Len(last.fetched) = 4
    /\ ~RenderThrows
    /\ Len(container) = 3
    /\ container[3].id = last.fetched[3].id

\* the posts the cards in the container were made from
Shown == IF fetchState = "rendered" /\ Len(blogPosts.items) > 0
         THEN blogPosts.items ELSE placeholderPosts

\* C13: neither fetch continuation runs before init() has applied the
\* initial language, and the cards rendered when the fetch completes
\* (success or failure) are in the language that is current at that moment,
\* a language switched to while the fetch was in flight included: the date
\* is in that language's locale and title and excerpt are that language's
\* entries (the en entry where the post has none).
C13_RenderLanguage ==
    /\ fetchState \in {"rendered", "fallback"} => pc = "idle"
    /\ last.op = "fetchComplete"
          => \A i \in 1..Len(container) :
                /\ container[i].date.locale =
                      (IF currentLanguage = "fr" THEN "fr-FR" ELSE "en-US")
                /\ container[i].title =
                      (IF currentLanguage = "fr" /\ Shown[i].title.fr # ""
                       THEN Shown[i].title.fr ELSE Shown[i].title.en)
                /\ container[i].excerpt =
                      (IF currentLanguage = "fr" /\ Shown[i].excerpt.fr # ""
                       THEN Shown[i].excerpt.fr ELSE Shown[i].excerpt.en)

\* the fetch was issued under the constructor's en; the language became fr
\* while it was in flight, and the post cards are in French
C13_Witness ==
    /\ last.op = "fetchComplete"
    /\ fetchState = "rendered"
    /\ currentLanguage = "fr"
    /\ Len(container) = 3
    /\ container[1].src = "post"
    /\ container[1].title = "B"
    /\ container[1].date.locale = "fr-FR"

\* C14: the post load is fire-and-forget.  init() reaches its end (listeners
\* wired, initial language applied) with the fetch still pending and the
\* container untouched; and as long as the fetch is pending, which may be
\* for ever, language buttons, the nav toggle and the close triggers are
\* handled and have their normal effects.
C14_FireAndForget ==
    /\ [](last.op = "handleInitialLanguage"
            => /\ pc = "idle"
               /\ fetchState = "pending"
               /\ container = <<MarkupCard>>)
    /\ []((pc = "idle" /\ fetchState = "pending")
            => /\ ENABLED ClickLangBtn("fr", FALSE)
               /\ ENABLED ClickLangBtn("en", TRUE)
               /\ ENABLED ClickNavToggle(FALSE)
               /\ ENABLED KeyDown("Escape")
               /\ ENABLED ClickElsewhere(FALSE))
    /\ [][(fetchState = "pending" /\ fetchState' = "pending")
            => /\ last'.op = "switchLanguage"
                    => /\ currentLanguage' = last'.lang
                       /\ texts'["both"] = last'.lang
                       /\ last'.changed => langBtnActive'[last'.lang]
               /\ last'.op = "toggleMobileNav"
                    => /\ mobileNavOpen' = ~mobileNavOpen
                       /\ menuActive' = mobileNavOpen'
               /\ last'.op \in {"escape", "clickOutside", "navLink"}
                    => /\ ~mobileNavOpen'
                       /\ ~menuActive']_vars

\* with the fetch still pending the nav was opened and then, by a button
\* inside the nav, the language was changed
C14_Witness ==
    /\ fetchState = "pending"
    /\ pc = "idle"
    /\ last.op = "switchLanguage"
    /\ last.changed
    /\ currentLanguage = last.lang
    /\ mobileNavOpen

\* what the submit handler and the timer callback do to the submit control
FormEffects ==
    /\ [][last'.op = "submit"
            => /\ submitDisabled'
               /\ submitLoading'
               /\ texts'["submit"] = LoadingText(currentLanguage)]_vars
    /\ [][last'.op = "timer"
            => /\ ~submitDisabled'
               /\ ~submitLoading'
               /\ texts'["submit"] = Head(labelBefore)]_vars
    /\ [][Len(timers') < Len(timers) => last'.op = "timer"]_vars

\* C15 as stated: a submit disables the control and shows the 'sending'
\* string of the current language; the timer of every submission always
\* fires, and when it fires the control is enabled and shows the label it
\* had before the submission.
C15_Original ==
    /\ FormEffects
    /\ \A n \in 1..(MaxSubmits + MaxResubmits) :
          (Len(timers) = n) ~> (Len(timers) < n)

\* C15 amended: the same, except that the timer fires only if the document
\* is still loaded when it is due: the handler does not cancel the native
\* submission, whose navigation unloads the page and its timers.  No step
\* of the script removes a pending timer.
C15_Amended ==
    /\ FormEffects
    /\ \A n \in 1..(MaxSubmits + MaxResubmits) :
          (Len(timers) = n) ~> (Len(timers) < n \/ pc = "unloaded")

\* a submission made under fr has had its timer fire: the control is
\* enabled and shows the French label again
C15_Witness ==
    /\ last.op = "timer"
    /\ currentLanguage = "fr"
    /\ texts["submit"] = "fr"
    /\ ~submitDisabled
    /\ ~submitLoading
    /\ timers = <<>>

\* C16: reveal-on-scroll is one-shot per element.  The first callback in
\* which an element is intersecting makes it visible and stops watching it;
\* a visible element is never watched and never changes again; an entry that
\* is not intersecting changes nothing.
C16_OneShot ==
    /\ [](\A el \in AnimatedElements :
            /\ elStyle[el] = "visible" => el \notin observed
            /\ elStyle[el] = "hidden" <=> el \in observed)
    /\ [][\A el \in AnimatedElements :
            /\ elStyle[el] = "visible"
                  => (elStyle'[el] = "visible" /\ el \notin observed')
            /\ last'.op = "intersection"
                  => IF el \in last'.hit
                     THEN elStyle'[el] = "visible" /\ el \notin observed'
                     ELSE /\ elStyle'[el] = elStyle[el]
                          /\ el \in observed' <=> el \in observed]_vars

\* one element was revealed by an earlier callback; a later callback, in
\* which another element is not intersecting, has left both as they were
C16_Witness ==
    /\ last.op = "intersection"
    /\ last.seen = {"skill-tag"}
    /\ last.hit = {}
    /\ elStyle["skill-tag"] = "hidden"
    /\ "skill-tag" \in observed
    /\ elStyle["project-card"] = "visible"
    /\ "project-card" \notin observed

\* C17: when reduced motion is requested the observer's init() sets nothing
\* up: no element is given the hidden initial style, none is watched, and
\* no callback can run, so every element keeps the style of the markup.
C17_ReducedMotionSkipsSetup ==
    (obsPc = "done" /\ reducedMotion)
       => /\ observed = {}
          /\ \A el \in AnimatedElements : elStyle[el] = "markup"
          /\ \A entries \in EntryLists(AnimatedElements) :
                ~ENABLED Intersect(entries)

\* the observer was constructed under reduced motion
C17_Witness ==
    /\ obsPc = "done"
    /\ reducedMotion
    /\ last.op = "observerInit"
    /\ elStyle["project-card"] = "markup"
    /\ observed = {}

\* C18: getTranslatedText returns a plain string unchanged; for a mapping it
\* returns the entry of the current language when there is one and the en
\* entry otherwise: {en: "A"} under fr gives "A", {en: "A", fr: "B"} under
\* fr gives "B".  (An entry that is the empty string counts as absent.)
C18_TranslatedText ==
    (call.fn = "getTranslatedText" /\ call.done)
       => /\ call.text.type = "string" => call.string = call.text.str
          /\ call.text.type = "object"
                => call.string =
                     (IF call.lang = "fr" /\ call.text.fr # ""
                      THEN call.text.fr ELSE call.text.en)
          /\ (call.text = Mapping("A", "") /\ call.lang = "fr")
                => call.string = "A"
          /\ (call.text = Mapping("A", "B") /\ call.lang = "fr")
                => call.string = "B"

\* getTranslatedText({en: "A"}) under fr has returned "A"
C18_Witness ==
    /\ call.fn = "getTranslatedText"
    /\ call.done
    /\ call.text = Mapping("A", "")
    /\ call.lang = "fr"
    /\ call.string = "A"

\* C19 as stated: formatDate renders the calendar date its ISO date string
\* names, in the locale of the current language (fr-FR for fr, en-US
\* otherwise), in whatever time zone the browser runs: '2024-01-15' gives
\* January (month 1), 15, 2024.
C19_Original ==
    (call.fn = "formatDate" /\ call.done)
       => /\ call.formatted.locale =
                (IF call.lang = "fr" THEN "fr-FR" ELSE "en-US")
          /\ call.formatted.year = call.date[1]
          /\ call.formatted.month = call.date[2]
          /\ call.formatted.day = call.date[3]

\* C20: a click on a same-page anchor whose target element exists requests
\* a scroll to exactly (the target's offsetTop - the header's height - 20),
\* closes the mobile nav and pushes the fragment to the URL; when the id
\* matches no element the default jump is still cancelled, but no scroll is
\* requested, the URL is not updated and the handler leaves mobileNavOpen as
\* it is (a click outside the nav is then closed by the document listener,
\* so the handler is seen alone in a click inside the nav).
C20_AnchorClick ==
    [][\A href \in Hrefs, inNav \in BOOLEAN :
          ClickAnchor(href, inNav)
             => /\ last'.prevented
                /\ IF \E id \in ElementIds : href = <<"#">> \o id
                   THEN /\ scrollTo' = <<OffsetTop(Tail(href)) - HeaderHeight
                                           - 20>>
                        /\ ~mobileNavOpen'
                        /\ ~menuActive'
                        /\ urlHash' = href
                   ELSE /\ scrollTo' = scrollTo
                        /\ urlHash' = urlHash
                        /\ inNav => /\ mobileNavOpen' = mobileNavOpen
                                    /\ menuActive' = menuActive
                                    /\ bodyOverflow' = bodyOverflow]_vars

\* with the nav open, an anchor whose target exists was clicked: the scroll
\* was requested, the nav is closed and the URL carries the fragment
C20_Witness ==
    /\ last.op = "anchor"
    /\ last.found
    /\ last.prevented
    /\ last.openBefore
    /\ ~mobileNavOpen
    /\ scrollTo = <<OffsetTop(<<"a">>) - HeaderHeight - 20>>
    /\ urlHash = <<"#", "a">>

\* C21 as stated: in every state in which post cards (fetched or
\* placeholder) have been rendered, the language their titles, excerpts and
\* dates were rendered in is the current language, also after a language
\* switch that follows the completion of the fetch.
C21_Original ==
    fetchState \in {"rendered", "fallback"}
       => \A i \in 1..Len(container) :
             /\ container[i].date.locale =
                   (IF currentLanguage = "fr" THEN "fr-FR" ELSE "en-US")
             /\ container[i].title =
                   (IF currentLanguage = "fr" /\ Shown[i].title.fr # ""
                    THEN Shown[i].title.fr ELSE Shown[i].title.en)
             /\ container[i].excerpt =
                   (IF currentLanguage = "fr" /\ Shown[i].excerpt.fr # ""
                    THEN Shown[i].excerpt.fr ELSE Shown[i].excerpt.en)

\* the 'sending' strings of handleFormSubmission()
LoadingTexts == {LoadingText(lang) : lang \in Languages}

\* C22 as stated: the submit control is never left stuck in its loading
\* state.  After any submissions (a second one handled before the first
\* one's timer has fired included) and language switches, whenever no form
\* timer is pending the control is enabled and its label is not a 'sending'
\* string but a label of the control.
C22_Original ==
    (pc = "idle" /\ submits > 0 /\ timers = <<>>)
       => /\ ~submitDisabled
          /\ ~submitLoading
          /\ texts["submit"] \notin LoadingTexts

\* C23: no element is stranded hidden.  A hidden element is still watched,
\* and a callback in which it is intersecting can run and makes it visible;
\* an element that is not watched (never, or no longer) is not hidden; the
\* post cards, rendered after the observer was set up, are never watched
\* and never hidden.
C23_NoneStranded ==
    /\ [](\A el \in AnimatedElements :
            /\ elStyle[el] = "hidden"
                  => /\ el \in observed
                     /\ ENABLED Intersect([t \in {el} |-> TRUE])
            /\ el \notin observed => elStyle[el] \in {"markup", "visible"})
    /\ [](/\ observed \subseteq AnimatedElements
          /\ \A i \in 1..Len(container) : container[i].style # "hidden")
    /\ [][\A el \in AnimatedElements :
            (elStyle[el] = "hidden" /\ last'.op = "intersection"
             /\ el \in last'.hit) => elStyle'[el] = "visible"]_vars

\* the observer is set up without reduced motion; the fetched posts were
\* rendered afterwards and their cards are not hidden, while one element is
\* hidden and watched and another was revealed and is no longer watched
C23_Witness ==
    /\ obsPc = "done"
    /\ ~reducedMotion
    /\ fetchState = "rendered"
    /\ Len(container) = 3
    /\ container[1].src = "post"
    /\ container[1].style = "markup"
    /\ elStyle["contact-method"] = "hidden"
    /\ "contact-method" \in observed
    /\ elStyle["skill-tag"] = "visible"
    /\ "skill-tag" \notin observed

\* the handlers that reach toggleMobileNav() or closeMobileNav()
NavEvents == {"toggleMobileNav", "navLink", "anchor", "clickOutside",
              "clickInNav", "escape", "keydown"}

\* C24: the three pieces of controller state are independent.
\* switchLanguage leaves mobileNavOpen and blogPosts as they are (a click on
\* a button outside the open nav is set aside: there the document's click
\* listener, not switchLanguage, closes the nav); toggleMobileNav and
\* closeMobileNav leave currentLanguage, the
\* stored preference and blogPosts as they are; the fetch continuation, a
\* form submission, its timer and a header scroll leave currentLanguage,
\* the stored preference and mobileNavOpen as they are; and the stored
\* preference is written only by a switchLanguage that changes the language.
C24_Independent ==
    [][/\ last'.op \in {"switchLanguage", "handleInitialLanguage"}
            => /\ blogPosts' = blogPosts
               /\ ~last'.outsideOpenNav => UNCHANGED navVars
       /\ last'.op \in NavEvents
            => UNCHANGED <<currentLanguage, stored, blogPosts>>
       /\ last'.op \in {"fetchComplete", "submit", "timer", "scroll"}
            => UNCHANGED <<currentLanguage, stored, mobileNavOpen>>
       /\ stored' # stored
            => /\ last'.op \in {"switchLanguage", "handleInitialLanguage"}
               /\ last'.changed
       /\ last'.wrote
            => /\ last'.op \in {"switchLanguage", "handleInitialLanguage"}
               /\ last'.changed
               /\ stored' = currentLanguage']_vars

\* with the nav open and the posts rendered, a button inside the nav has
\* changed the language: the nav is still open and the posts are there
C24_Witness ==
    /\ last.op = "switchLanguage"
    /\ last.changed
    /\ last.wrote
    /\ last.openBefore
    /\ mobileNavOpen
    /\ fetchState = "rendered"
    /\ Len(blogPosts.items) > 0
    /\ stored = currentLanguage

====
